---- MODULE Spec2Model ----
(***************************************************************************)
(* Model of src/app.py (PDF statement to spreadsheet converter):           *)
(*   clean_dataframe                    the table sanitizer                *)
(*   extract_page_data_with_pdfplumber  the word-grid reconstruction       *)
(*   process_pdf                        page resolution and the page loop  *)
(*   main                               what the caller reports            *)
(*                                                                         *)
(* Encoding.  Lengths are integers in thousandths of a PDF unit for x0     *)
(* (column_positions has three decimals) and whole units for top.  A       *)
(* DataFrame is a record [ncols, rows], rows a sequence of rows, a row a   *)
(* sequence of cells, a cell a string or NaN.  Python's None is the record *)
(* None for an Optional[DataFrame] and <<>> for an Optional[int], whose    *)
(* value n is <<n>>.  The Streamlit calls st.info/success/warning/error    *)
(* append to log.                                                          *)
(***************************************************************************)
EXTENDS Integers, Sequences, FiniteSets, TLC

VARIABLES
    pc,               \* position of the run in main / process_pdf
    doc,              \* the pages of the uploaded document
    doc_ok,           \* the document opens (readable, right password)
    request,          \* arguments pages, start_page, end_page of process_pdf
    total_pages,      \* process_pdf: total_pages
    pages_to_process, \* process_pdf: pages_to_process
    i,                \* position of the page loop in pages_to_process
    page_num,         \* process_pdf: page_num
    words,            \* extract_page_data_with_pdfplumber: words
    data_rows,        \* extract_page_data_with_pdfplumber: data_rows
    df_pdfplumber,    \* process_pdf: df_pdfplumber
    tables,           \* process_pdf: candidates of tables not yet visited
    all_data,         \* process_pdf: all_data, the accumulator
    before,           \* all_data when the current page was started
    mark,             \* Len(log) when the current page was started
    log,              \* the messages shown so far
    ret,              \* value returned by process_pdf
    passes            \* sanitizer runs: the table given, then the table
                      \* after each call of clean_dataframe

vars == <<pc, doc, doc_ok, request, total_pages, pages_to_process, i,
          page_num, words, data_rows, df_pdfplumber, tables, all_data,
          before, mark, log, ret, passes>>

(***************************************************************************)
(* Bounds of the model                                                     *)
(***************************************************************************)
MaxPages == 2          \* pages of a document in pipeline runs
MaxSelect == 2         \* largest page number a pipeline run asks for
MaxListLen == 2        \* longest explicit page list in pipeline runs
MaxResolvePages == 4   \* pages of a document in resolver runs
MaxResolveNo == 5      \* largest page number in resolver runs
MaxResolveLen == 3     \* longest explicit page list in resolver runs
MaxWords == 3          \* words on a page in reconstruction runs
MaxRows == 3           \* rows of a table in sanitizer runs

(***************************************************************************)
(* Constants of process_pdf                                                *)
(***************************************************************************)
expected_headers ==
    <<"Receipt No.", "Completion Time", "Details", "Transaction Status",
      "Paid In", "Withdrawn", "Balance">>

column_positions == <<37500, 85000, 194899, 350000, 418400, 465200, 521340>>

(***************************************************************************)
(* Python values                                                           *)
(***************************************************************************)
None == [none |-> TRUE]
NoneInt == <<>>
NaN == "<NaN>"
Whitespace == {" ", "\t", "\n"}

\* F(v) with v worked out once, where LET would work it out at every use
Once(v, F(_)) == CHOOSE out \in {F(x) : x \in {v}} : TRUE

Max(a, b) == IF a >= b THEN a ELSE b
Min(a, b) == IF a <= b THEN a ELSE b

\* range(a, b) as the sequence a, a+1, ..., b-1
range(a, b) == [k \in 1..(IF b > a THEN b - a ELSE 0) |-> a + k - 1]

\* the key taken by cutting the units off
round_floor(y0) == 10 * (y0 \div 10)

\* round(y0, -1): nearest multiple of ten, a tie going to the even multiple
round(y0) ==
    LET q == y0 \div 10
        r == y0 % 10
    IN  IF r < 5 THEN 10 * q
        ELSE IF r > 5 THEN 10 * (q + 1)
        ELSE IF q % 2 = 0 THEN 10 * q ELSE 10 * (q + 1)

RECURSIVE lstrip(_)
lstrip(s) ==
    IF s = "" THEN s
    ELSE IF Head(s) \in Whitespace THEN lstrip(Tail(s)) ELSE s

RECURSIVE rstrip(_)
rstrip(s) ==
    IF s = "" THEN s
    ELSE IF SubSeq(s, Len(s), Len(s)) \in Whitespace
         THEN rstrip(SubSeq(s, 1, Len(s) - 1))
         ELSE s

\* str.strip()
strip(s) == rstrip(lstrip(s))

\* " ".join(cell)
RECURSIVE join(_)
join(cell) ==
    IF cell = <<>> THEN ""
    ELSE IF Len(cell) = 1 THEN cell[1]
    ELSE cell[1] \o " " \o join(Tail(cell))

\* sorted(keys)
RECURSIVE sorted(_)
sorted(keys) ==
    IF keys = {} THEN <<>>
    ELSE LET m == CHOOSE k \in keys : \A o \in keys : k <= o
         IN  <<m>> \o sorted(keys \ {m})

(***************************************************************************)
(* DataFrames                                                              *)
(***************************************************************************)
DataFrame(rows, columns) == [ncols |-> Len(columns), rows |-> rows]

\* DataFrame.empty: some axis has length zero
empty(d) == d.ncols = 0 \/ d.rows = <<>>

\* the test without the look at the rows
no_result_none_only(d) == d = None

\* "df is None or df.empty" (line 11, and negated at lines 111 and 123)
no_result(d) == IF d = None THEN TRUE ELSE empty(d)

\* only the first row whose first cell is the header is dropped
DropHeaderRows_first(rows, header) ==
    LET hits == {k \in 1..Len(rows) : rows[k][1] = header}
    IN  IF hits = {} THEN rows
        ELSE LET f == CHOOSE k \in hits : \A o \in hits : k <= o
             IN  SubSeq(rows, 1, f - 1) \o SubSeq(rows, f + 1, Len(rows))

\* df[~(df.iloc[:, 0] == header)]
DropHeaderRows(rows, header) == SelectSeq(rows, LAMBDA r : r[1] # header)

\* DataFrame.dropna(how='all'): drops the rows whose cells are all NaN
dropna(rows) == SelectSeq(rows, LAMBDA r : \E c \in 1..Len(r) : r[c] # NaN)

clean_dataframe(d, headers) ==
    IF no_result(d)
    THEN DataFrame(<<>>, headers)
    ELSE [d EXCEPT !.rows = dropna(DropHeaderRows(d.rows, headers[1]))]

(***************************************************************************)
(* extract_page_data_with_pdfplumber                                       *)
(***************************************************************************)
\* the loop over zip(column_positions, column_positions[1:] + [None]):
\* index of the first interval [start, end) holding x0, 0 when none does
column_index(x0, positions) ==
    LET hits == {idx \in 1..Len(positions) :
                    /\ x0 >= positions[idx]
                    /\ (idx = Len(positions) \/ x0 < positions[idx + 1])}
    IN  IF hits = {} THEN 0
        ELSE CHOOSE idx \in hits : \A o \in hits : idx <= o

\* one pass of the loop over words: rows is the dict built so far
place_word(rows, word, positions, headers) ==
    LET row_key == round(word.top)
        rows1 == IF row_key \in DOMAIN rows
                 THEN rows
                 ELSE rows @@ (row_key :> [c \in 1..Len(headers) |-> <<>>])
        idx == column_index(word.x0, positions)
    IN  IF idx = 0 THEN rows1
        ELSE [rows1 EXCEPT ![row_key][idx] = Append(@, word.text)]

RECURSIVE place_words(_, _, _, _)
place_words(rows, ws, positions, headers) ==
    IF ws = <<>> THEN rows
    ELSE Once(place_word(rows, Head(ws), positions, headers),
              LAMBDA r : place_words(r, Tail(ws), positions, headers))

\* the list data_rows: one row of joined, stripped cells per key, keys sorted
build_data_rows(ws, positions, headers) ==
    Once(place_words(<<>>, ws, positions, headers), LAMBDA rows :
        Once(sorted(DOMAIN rows), LAMBDA keys :
            [k \in 1..Len(keys) |->
                [c \in 1..Len(headers) |-> strip(join(rows[keys[k]][c]))]]))

\* the value returned when nothing raises
extract_page_data_with_pdfplumber(ws, positions, headers) ==
    Once(build_data_rows(ws, positions, headers), LAMBDA rs :
        IF rs = <<>> THEN None
        ELSE Once(DataFrame(rs, headers), LAMBDA d : clean_dataframe(d, headers)))

(***************************************************************************)
(* process_pdf: page resolution                                            *)
(***************************************************************************)
\* [p - 1 for p in pages if 0 < p <= total]
RECURSIVE listed_pages(_, _)
listed_pages(pages, total) ==
    IF pages = <<>> THEN <<>>
    ELSE LET p == Head(pages)
         IN  (IF 0 < p /\ p <= total THEN <<p - 1>> ELSE <<>>)
             \o listed_pages(Tail(pages), total)

\* the range not clipped to the number of pages
resolve_pages_unclipped(req, total) ==
    IF req.all
    THEN IF req.start_page # NoneInt /\ req.end_page # NoneInt
         THEN range(Max(req.start_page[1] - 1, 0), req.end_page[1])
         ELSE range(0, total)
    ELSE listed_pages(req.pages, total)

resolve_pages(req, total) ==
    IF req.all
    THEN IF req.start_page # NoneInt /\ req.end_page # NoneInt
         THEN range(Max(req.start_page[1] - 1, 0), Min(req.end_page[1], total))
         ELSE range(0, total)
    ELSE listed_pages(req.pages, total)

\* pd.concat(all_data, ignore_index=True) of tables with the same columns
RECURSIVE concat(_)
concat(ds) ==
    IF ds = <<>> THEN <<>>
    ELSE Head(ds).rows \o concat(Tail(ds))

(***************************************************************************)
(* Messages                                                                *)
(***************************************************************************)
Msg(level, text, page) == [level |-> level, text |-> text, page |-> page]

(***************************************************************************)
(* Inputs                                                                  *)
(***************************************************************************)
SeqsUpTo(S, n) == UNION {[1..k -> S] : k \in 0..n}

Request(all, pages, start_page, end_page) ==
    [all |-> all, pages |-> pages,
     start_page |-> start_page, end_page |-> end_page]

\* what main passes to process_pdf: "Process all pages" (or a blank list of
\* specific pages), a range with 1 <= start <= end, or a list of integers
MainRequests ==
    {Request(TRUE, <<>>, NoneInt, NoneInt)}
    \cup {Request(TRUE, <<>>, <<se[1]>>, <<se[2]>>) :
             se \in {p \in (1..MaxSelect) \X (1..MaxSelect) : p[1] <= p[2]}}
    \cup {Request(FALSE, ps, NoneInt, NoneInt) :
             ps \in SeqsUpTo(0..MaxSelect, MaxListLen) \ {<<>>}}

\* a word as page.extract_words() gives it: a text without blanks, placed
Word(text, x0, top) == [text |-> text, x0 |-> x0, top |-> top]

Row7(first, rest) == <<first, rest, rest, rest, rest, rest, rest>>

\* tables of the fallback detector: grids of strings
NarrowTable == [ncols |-> 3, rows |-> <<<<"TX9", "10", "90">>>>]
HeaderTable == [ncols |-> 7, rows |-> <<Row7("Receipt No.", "x")>>]
DataTable == [ncols |-> 7, rows |-> <<Row7("Receipt No.", "x"), Row7("TX2", "5")>>]
OtherTable == [ncols |-> 7, rows |-> <<Row7("TX3", "7")>>]

\* pages of a document: the words of the page, and the tables the fallback
\* detector finds on it
Page(ws, ts) == [words |-> ws, tables |-> ts]

DataPage ==
    Page(<<Word("Receipt", 37500, 100), Word("No.", 60000, 101),
           Word("Balance", 521340, 100),
           Word("TX1", 37500, 121), Word("90", 521340, 119)>>,
         <<>>)

HeaderPage ==
    Page(<<Word("Receipt", 37500, 100), Word("No.", 60000, 100)>>,
         <<DataTable, NarrowTable, OtherTable>>)

MarginPage == Page(<<Word("1", 10000, 100)>>, <<DataTable>>)

ScanPage == Page(<<>>, <<NarrowTable, HeaderTable>>)

SamplePages == <<HeaderPage, DataPage, ScanPage, MarginPage>>

\* documents of n pages: n sample pages in a row, starting at any of them
Documents(maxPages) ==
    {[k \in 1..n |-> SamplePages[((a + k - 2) % Len(SamplePages)) + 1]] :
        a \in 1..Len(SamplePages), n \in 0..maxPages}

(***************************************************************************)
(* process_pdf and main as a state machine                                 *)
(***************************************************************************)
\* process_pdf not yet entered, but for the words of the page
NoRun ==
    /\ total_pages = 0
    /\ pages_to_process = <<>>
    /\ i = 1
    /\ page_num = 0
    /\ data_rows = <<>>
    /\ df_pdfplumber = None
    /\ tables = <<>>
    /\ all_data = <<>>
    /\ before = <<>>
    /\ mark = 0
    /\ log = <<>>
    /\ ret = None

Idle == NoRun /\ words = <<>>

NoSanitizerRun == passes = <<>>

Init ==
    /\ pc = "open"
    /\ doc \in Documents(MaxPages)
    /\ doc_ok \in BOOLEAN
    /\ request \in MainRequests
    /\ Idle
    /\ NoSanitizerRun

\* lines 83-98: the document opens, the pages are resolved
Open ==
    /\ pc = "open"
    /\ doc_ok
    /\ total_pages' = Len(doc)
    /\ pages_to_process' = resolve_pages(request, Len(doc))
    /\ log' = log \o <<Msg("info", "Total pages in PDF", 0),
                       Msg("info", "Processing pages", 0)>>
    /\ i' = 1
    /\ pc' = "loop"
    /\ UNCHANGED <<doc, doc_ok, request, page_num, words, data_rows,
                   df_pdfplumber, tables, all_data, before, mark, ret, passes>>

\* lines 83, 140-142: pdfplumber.open raises
OpenFail ==
    /\ pc = "open"
    /\ ~doc_ok
    /\ log' = Append(log, Msg("error", "An error occurred while processing the PDF", 0))
    /\ ret' = None
    /\ pc' = "returned"
    /\ UNCHANGED <<doc, doc_ok, request, total_pages, pages_to_process,
                   i, page_num, words, data_rows, df_pdfplumber, tables,
                   all_data, before, mark, passes>>

\* the handler leaving the loop instead of going on with the next page
PageExcept_break(page) ==
    /\ log' = Append(log, Msg("error", "Error processing page", page + 1))
    /\ tables' = <<>>
    /\ i' = Len(pages_to_process) + 1
    /\ pc' = "loop"

\* lines 127-129: the handler of the page's try block
PageExcept(page) ==
    /\ log' = Append(log, Msg("error", "Error processing page", page + 1))
    /\ tables' = <<>>
    /\ i' = i + 1
    /\ pc' = "loop"

\* the loop running over the pages from the last to the first
next_page_reversed(k) == pages_to_process[Len(pages_to_process) - k + 1]

\* line 100: the page the loop takes at position k
next_page(k) == pages_to_process[k]

\* lines 100-109: the next page is taken and the primary extraction is run;
\* an exception inside it is caught at lines 54-56 and None is returned
PrimaryAttempt ==
    /\ pc = "loop"
    /\ i <= Len(pages_to_process)
    /\ \E raises \in BOOLEAN :
       LET ws == doc[next_page(i) + 1].words
       IN /\ words' = ws
          /\ data_rows' = IF raises THEN <<>>
                          ELSE build_data_rows(ws, column_positions, expected_headers)
          /\ df_pdfplumber' =
                IF raises THEN None
                ELSE extract_page_data_with_pdfplumber(
                         ws, column_positions, expected_headers)
          /\ log' = log
                \o <<Msg("info", "Attempting pdfplumber extraction",
                         next_page(i) + 1)>>
                \o (IF raises
                    THEN <<Msg("error", "Error with pdfplumber extraction", 0)>>
                    ELSE <<>>)
    /\ page_num' = next_page(i)
    /\ before' = all_data
    /\ mark' = Len(log)
    /\ pc' = "branch"
    /\ UNCHANGED <<doc, doc_ok, request, total_pages, pages_to_process,
                   i, tables, all_data, ret, passes>>

\* lines 111-113: the primary result is taken
Accept ==
    /\ pc = "branch"
    /\ ~no_result(df_pdfplumber)
    /\ all_data' = Append(all_data, df_pdfplumber)
    /\ log' = Append(log, Msg("success", "Extracted data with pdfplumber", page_num + 1))
    /\ i' = i + 1
    /\ pc' = "loop"
    /\ UNCHANGED <<doc, doc_ok, request, total_pages, pages_to_process,
                   page_num, words, data_rows, df_pdfplumber, tables, before,
                   mark, ret, passes>>

\* lines 114-115: the fallback is announced
FallbackBegin ==
    /\ pc = "branch"
    /\ no_result(df_pdfplumber)
    /\ log' = Append(log, Msg("info", "Attempting Camelot extraction", page_num + 1))
    /\ pc' = "fallback"
    /\ UNCHANGED <<doc, doc_ok, request, total_pages, pages_to_process,
                   i, page_num, words, data_rows, df_pdfplumber, tables,
                   all_data, before, mark, ret, passes>>

\* line 116: camelot.read_pdf returns its tables
CamelotRead ==
    /\ pc = "fallback"
    /\ tables' = doc[page_num + 1].tables
    /\ pc' = "candidates"
    /\ UNCHANGED <<doc, doc_ok, request, total_pages, pages_to_process,
                   i, page_num, words, data_rows, df_pdfplumber, all_data,
                   before, mark, log, ret, passes>>

\* lines 118-125: one pass of the loop over tables
Candidate ==
    /\ pc = "candidates"
    /\ tables # <<>>
    /\ LET df_camelot == clean_dataframe(Head(tables), expected_headers)
           taken == /\ Head(tables).ncols = Len(expected_headers)
                    /\ ~no_result(df_camelot)
       IN  /\ all_data' = IF taken THEN Append(all_data, df_camelot) ELSE all_data
           /\ log' = IF taken
                     THEN Append(log, Msg("success", "Extracted data with Camelot",
                                          page_num + 1))
                     ELSE log
    /\ tables' = Tail(tables)
    /\ UNCHANGED <<pc, doc, doc_ok, request, total_pages,
                   pages_to_process, i, page_num, words, data_rows,
                   df_pdfplumber, before, mark, ret, passes>>

\* line 118: the loop over tables ends, and with it the page
CandidatesDone ==
    /\ pc = "candidates"
    /\ tables = <<>>
    /\ i' = i + 1
    /\ pc' = "loop"
    /\ UNCHANGED <<doc, doc_ok, request, total_pages, pages_to_process,
                   page_num, words, data_rows, df_pdfplumber, tables, all_data,
                   before, mark, log, ret, passes>>

\* lines 116-129: camelot.read_pdf, or the handling of a candidate, raises
FallbackError ==
    /\ \/ pc = "fallback"
       \/ pc = "candidates" /\ tables # <<>>
    /\ PageExcept(page_num)
    /\ UNCHANGED <<doc, doc_ok, request, total_pages, pages_to_process,
                   page_num, words, data_rows, df_pdfplumber, all_data, before,
                   mark, ret, passes>>

\* lines 131-142: the loop is over; the tables are merged, sanitized and
\* written (the outer handler takes a failure of that), or nothing was found
Finish ==
    /\ pc = "loop"
    /\ i > Len(pages_to_process)
    /\ IF all_data # <<>>
       THEN \E written \in BOOLEAN :
               IF written
               THEN /\ ret' = clean_dataframe(
                                 DataFrame(concat(all_data), expected_headers),
                                 expected_headers)
                    /\ log' = log
               ELSE /\ ret' = None
                    /\ log' = Append(log, Msg("error",
                                 "An error occurred while processing the PDF", 0))
       ELSE /\ ret' = None
            /\ log' = Append(log, Msg("warning",
                         "No data was successfully extracted from the PDF.", 0))
    /\ pc' = "returned"
    /\ UNCHANGED <<doc, doc_ok, request, total_pages, pages_to_process,
                   i, page_num, words, data_rows, df_pdfplumber, tables,
                   all_data, before, mark, passes>>

\* main, lines 195-205: the caller looks at the value returned
MainReport ==
    /\ pc = "returned"
    /\ log' = IF ret = None
              THEN Append(log, Msg("error", "Failed to process PDF.", 0))
              ELSE Append(log, Msg("write", "Preview of extracted data:", 0))
    /\ pc' = "done"
    /\ UNCHANGED <<doc, doc_ok, request, total_pages, pages_to_process,
                   i, page_num, words, data_rows, df_pdfplumber, tables,
                   all_data, before, mark, ret, passes>>

Next ==
    \/ Open
    \/ OpenFail
    \/ PrimaryAttempt
    \/ Accept
    \/ FallbackBegin
    \/ CamelotRead
    \/ Candidate
    \/ CandidatesDone
    \/ FallbackError
    \/ Finish
    \/ MainReport

Spec == Init /\ [][Next]_vars

(***************************************************************************)
(* Resolver runs: process_pdf called with any arguments, up to the         *)
(* resolution of the pages                                                 *)
(***************************************************************************)
OptInts(S) == {NoneInt} \cup {<<n>> : n \in S}

ResolveRequests ==
    {Request(TRUE, <<>>, s, e) :
        s \in OptInts(-1..MaxResolveNo), e \in OptInts(-1..MaxResolveNo)}
    \cup {Request(FALSE, ps, NoneInt, NoneInt) :
             ps \in SeqsUpTo(-1..MaxResolveNo, MaxResolveLen)}

InitResolve ==
    /\ pc = "open"
    /\ doc \in {d \in Documents(MaxResolvePages) : d = <<>> \/ d[1] = ScanPage}
    /\ doc_ok = TRUE
    /\ request \in ResolveRequests
    /\ Idle
    /\ NoSanitizerRun

NextResolve == Open

SpecResolve == InitResolve /\ [][NextResolve]_vars

(***************************************************************************)
(* Reconstruction runs: extract_page_data_with_pdfplumber on the words of  *)
(* one page                                                                *)
(***************************************************************************)
\* "No." anywhere, "Receipt" in the first column: enough for a header row,
\* for data rows, for words left of the first boundary and for merged rows
ReconWords ==
    {Word("No.", x, y) : x \in {10000, 37500, 85000}, y \in {100, 105, 109, 121}}
    \cup {Word("Receipt", 37500, y) : y \in {100, 105, 109, 121}}

InitRecon ==
    /\ pc = "extract"
    /\ doc = <<>>
    /\ doc_ok = TRUE
    /\ request = Request(TRUE, <<>>, NoneInt, NoneInt)
    /\ NoRun
    /\ words \in SeqsUpTo(ReconWords, MaxWords)
    /\ NoSanitizerRun

\* lines 26-52 on the words of the page
Reconstruct ==
    /\ pc = "extract"
    /\ data_rows' = build_data_rows(words, column_positions, expected_headers)
    /\ df_pdfplumber' = extract_page_data_with_pdfplumber(
                            words, column_positions, expected_headers)
    /\ pc' = "extracted"
    /\ UNCHANGED <<doc, doc_ok, request, total_pages, pages_to_process, i,
                   page_num, words, tables, all_data, before, mark, log, ret,
                   passes>>

NextRecon == Reconstruct

SpecRecon == InitRecon /\ [][NextRecon]_vars

(***************************************************************************)
(* Sanitizer runs: clean_dataframe applied to a table, and again to what   *)
(* it returned                                                             *)
(***************************************************************************)
CleanRows ==
    { Row7("Receipt No.", ""), Row7("Receipt No.", "x"), Row7("", ""),
      Row7(NaN, NaN), Row7("", NaN), Row7(NaN, "x"),
      Row7("TX1", "x"), Row7("TX1", "Receipt No.") }

CleanInputs ==
    {None} \cup {DataFrame(rs, expected_headers) : rs \in SeqsUpTo(CleanRows, MaxRows)}

InitClean ==
    /\ pc = "clean"
    /\ doc = <<>>
    /\ doc_ok = TRUE
    /\ request = Request(TRUE, <<>>, NoneInt, NoneInt)
    /\ Idle
    /\ \E d \in CleanInputs : passes = <<d>>

\* lines 9-16 on the table at hand
Sanitize ==
    /\ pc = "clean"
    /\ Len(passes) < 3
    /\ passes' = Append(passes, clean_dataframe(passes[Len(passes)], expected_headers))
    /\ UNCHANGED <<pc, doc, doc_ok, request, total_pages, pages_to_process, i,
                   page_num, words, data_rows, df_pdfplumber, tables, all_data,
                   before, mark, log, ret>>

NextClean == Sanitize

SpecClean == InitClean /\ [][NextClean]_vars

(***************************************************************************)
(* What the messages tell                                                  *)
(***************************************************************************)
HasText(ms, text) == \E k \in 1..Len(ms) : ms[k].text = text

\* the messages of the page at hand (of the last page, once it is over)
PageSeg == SubSeq(log, mark + 1, Len(log))

\* the page indices announced at line 104, in the order of the announcements
Visited ==
    LET att == SelectSeq(log, LAMBDA m : m.text = "Attempting pdfplumber extraction")
    IN  [k \in 1..Len(att) |-> att[k].page - 1]

IsPrefix(a, b) == Len(a) <= Len(b) /\ a = SubSeq(b, 1, Len(a))

Ascending(a) == \A j, k \in 1..Len(a) : j < k => a[j] < a[k]

(***************************************************************************)
(* C1.  The pages process_pdf resolves are those of the reference          *)
(* resolver: 'all' without a range gives 0..T-1; a range (start, end) gives *)
(* max(start-1,0) .. min(end,T)-1, nothing when that interval is empty; a  *)
(* list keeps the values p with 1 <= p <= T as p-1, in the caller's order, *)
(* unsorted and with its repetitions.  No index lies outside 0..T-1;       *)
(* (2, 5) on 3 pages gives [1,2]; [5,1,5] on 4 pages gives [0].            *)
(***************************************************************************)
IsInterval(r, lo, hi) ==
    /\ Len(r) = (IF lo > hi THEN 0 ELSE hi - lo + 1)
    /\ \A k \in 1..Len(r) : r[k] = lo + k - 1

C1_ResolvedPages ==
    pc = "loop" =>
        LET T == total_pages
            r == pages_to_process
            ranged == request.all /\ request.start_page # NoneInt
                                  /\ request.end_page # NoneInt
            kept == SelectSeq(request.pages, LAMBDA p : 1 <= p /\ p <= T)
        IN  /\ \A k \in 1..Len(r) : 0 <= r[k] /\ r[k] <= T - 1
            /\ (request.all /\ ~ranged) => IsInterval(r, 0, T - 1)
            /\ ranged => IsInterval(r, Max(request.start_page[1] - 1, 0),
                                       Min(request.end_page[1], T) - 1)
            /\ ~request.all =>
                  /\ Len(r) = Len(kept)
                  /\ \A k \in 1..Len(r) : r[k] = kept[k] - 1
            /\ (ranged /\ request.start_page = <<2>> /\ request.end_page = <<5>>
                  /\ T = 3) => r = <<1, 2>>
            /\ (~request.all /\ request.pages = <<5, 1, 5>> /\ T = 4) => r = <<0>>

C1_Witness ==
    /\ pc = "loop"
    /\ ~request.all
    /\ request.pages = <<5, 1, 5>>
    /\ total_pages = 4
    /\ pages_to_process = <<0>>

(***************************************************************************)
(* C2.  On every page whose primary reconstruction was run, the fallback   *)
(* is invoked exactly when the primary returned no result or a table       *)
(* without rows; a primary table with rows is accepted, adds that one      *)
(* table to the accumulator and the fallback is not invoked for the page.  *)
(***************************************************************************)
C2_FallbackIffNoPrimaryResult ==
    (pc # "branch" /\ HasText(PageSeg, "Attempting pdfplumber extraction")) =>
        LET nothing == IF df_pdfplumber = None THEN TRUE
                       ELSE Len(df_pdfplumber.rows) = 0
            fallback == HasText(PageSeg, "Attempting Camelot extraction")
        IN  /\ fallback <=> nothing
            /\ ~nothing => all_data = Append(before, df_pdfplumber)

\* a page holding only the header row: sanitized to nothing, fallback invoked
C2_Witness ==
    /\ pc = "candidates"
    /\ words = HeaderPage.words
    /\ df_pdfplumber # None
    /\ df_pdfplumber.rows = <<>>
    /\ Len(data_rows) = 1
    /\ HasText(PageSeg, "Attempting Camelot extraction")

(***************************************************************************)
(* C3.  A page on which a step failed (in the primary reconstruction or    *)
(* its sanitization, or in the fallback path, also after a fallback table  *)
(* of the page was accepted) contributes no table: the accumulator after   *)
(* the page is the accumulator before it.                                  *)
(***************************************************************************)
C3_FailedPageContributesNothing ==
    (/\ pc = "loop"
     /\ \/ HasText(PageSeg, "Error processing page")
        \/ HasText(PageSeg, "Error with pdfplumber extraction"))
    => all_data = before

(***************************************************************************)
(* C4.  As claimed: whatever the form of the page selection, the pages are *)
(* processed in ascending order of page index.                             *)
(***************************************************************************)
C4_AscendingOrder == Ascending(Visited)

(***************************************************************************)
(* C4, amended.  The pages are processed one at a time in the order of the *)
(* resolved sequence: ascending page index for 'all' and for a range, the  *)
(* caller's order for an explicit list.                                    *)
(***************************************************************************)
C4_ResolvedOrder ==
    /\ IsPrefix(Visited, pages_to_process)
    /\ request.all => Ascending(Visited)

C4_Witness ==
    /\ ~request.all
    /\ request.pages = <<2, 1>>
    /\ Visited = <<1, 0>>

(***************************************************************************)
(* C5.  Once the document is open, every resolved page is attempted, each  *)
(* entry of the resolved sequence once, and process_pdf returns, whatever  *)
(* pages failed before: a failure of a page stays within the page.         *)
(***************************************************************************)
SpecFair == Spec /\ WF_vars(Next)

C5_AllPagesAttempted ==
    [](pc = "loop" => <>(pc = "returned" /\ Visited = pages_to_process))

\* a run whose first page failed and whose second page was attempted
C5_Witness ==
    /\ pc = "returned"
    /\ Len(pages_to_process) >= 2
    /\ Visited = pages_to_process
    /\ \E k \in 1..Len(log) :
          /\ log[k].text = "Error processing page"
          /\ log[k].page = pages_to_process[1] + 1
          /\ \E j \in (k + 1)..Len(log) :
                log[j].text = "Attempting pdfplumber extraction"

(***************************************************************************)
(* C6.  A run that resolves no page or accumulates no table ends with "no  *)
(* data extracted", which is no error and which the caller tells apart     *)
(* from a failure of the document: process_pdf does not return what it     *)
(* returns on such a failure (None), and main does not show the message it *)
(* shows then.                                                             *)
(***************************************************************************)
C6_NoDataDistinctFromFailure ==
    (pc = "done" /\ doc_ok /\ all_data = <<>>) =>
        /\ ret # None
        /\ ~HasText(log, "Failed to process PDF.")

(***************************************************************************)
(* C7.  What clean_dataframe returns holds no row all of whose cells are   *)
(* the empty string or undefined.                                          *)
(***************************************************************************)
C7_NoEmptyRecords ==
    Len(passes) >= 2 =>
        \A k \in 1..Len(passes[2].rows) :
            \E c \in 1..Len(passes[2].rows[k]) :
                passes[2].rows[k][c] \notin {"", NaN}

(***************************************************************************)
(* C8.  As claimed: the words at top 100, 109 and 121 are reconstructed    *)
(* into exactly 2 rows, 100 and 109 sharing a RowKey.                      *)
(***************************************************************************)
Tops == [k \in 1..Len(words) |-> words[k].top]

C8_ScenarioB ==
    (pc = "extracted" /\ Tops = <<100, 109, 121>>) => Len(data_rows) = 2

(***************************************************************************)
(* C8, amended.  The RowKey of a word is the multiple of 10 nearest to its *)
(* top (of two equally near, the even multiple of 10); one row is emitted  *)
(* per distinct RowKey, in ascending order of the keys, its cell c joining *)
(* the texts of the words of that key and column in the order met.  The    *)
(* words at top 100, 109 and 121 have the keys 100, 110 and 120 and give   *)
(* exactly 3 rows; 100 and 105 share the key 100.                          *)
(***************************************************************************)
Dist(a, b) == IF a >= b THEN a - b ELSE b - a

Nearest10(y) ==
    LET ms == {10 * (y \div 10), 10 * (y \div 10) + 10}
    IN  CHOOSE m \in ms : \A o \in ms \ {m} :
            \/ Dist(y, m) < Dist(y, o)
            \/ Dist(y, m) = Dist(y, o) /\ (m \div 10) % 2 = 0

InColumn(x0, c) ==
    /\ x0 >= column_positions[c]
    /\ c = Len(column_positions) \/ x0 < column_positions[c + 1]

C8_NearestTenRows ==
    pc = "extracted" =>
        \E near \in {[k \in 1..Len(words) |-> Nearest10(words[k].top)]} :
        \E keys \in {{near[k] : k \in 1..Len(words)}} :
            /\ Len(data_rows) = Cardinality(keys)
            /\ \A n \in 1..Len(data_rows) :
                  \E m \in keys :
                     /\ Cardinality({o \in keys : o < m}) = n - 1
                     /\ \A c \in 1..Len(expected_headers) :
                           \E ks \in {SelectSeq([k \in 1..Len(words) |-> k],
                                         LAMBDA k : near[k] = m
                                                    /\ InColumn(words[k].x0, c))} :
                              data_rows[n][c] =
                                 join([j \in 1..Len(ks) |-> words[ks[j]].text])
            /\ Tops = <<100, 109, 121>> => Len(data_rows) = 3
            /\ Tops = <<100, 105>> => Len(data_rows) = 1

C8_Witness ==
    /\ pc = "extracted"
    /\ Tops = <<100, 109, 121>>
    /\ Len(data_rows) = 3

(***************************************************************************)
(* C9.  clean_dataframe is idempotent: sanitizing what it returned gives   *)
(* the same table, the same rows in the same order.                        *)
(***************************************************************************)
C9_Idempotent == Len(passes) = 3 => passes[3] = passes[2]

\* a table with a header row, an undefined row and a data row, sanitized twice
C9_Witness ==
    /\ Len(passes) = 3
    /\ passes[1] # None
    /\ passes[1].rows = <<Row7("Receipt No.", "x"), Row7(NaN, NaN), Row7("TX1", "x")>>
    /\ passes[2].rows = <<Row7("TX1", "x")>>
    /\ passes[3].rows = <<Row7("TX1", "x")>>

(***************************************************************************)
(* C10.  A word left of the first column boundary is dropped: the primary  *)
(* reconstruction returns what it returns for the words without it, and    *)
(* for a page whose words all lie left of the boundary it returns no       *)
(* result.                                                                 *)
(***************************************************************************)
C10_MarginWordsDropped ==
    pc = "extracted" =>
        LET inside == SelectSeq(words, LAMBDA w : w.x0 >= column_positions[1])
        IN  /\ df_pdfplumber = extract_page_data_with_pdfplumber(
                                  inside, column_positions, expected_headers)
            /\ inside = <<>> => df_pdfplumber = None

====
